---- MODULE Spec2Model ----
(***************************************************************************)
(* Model of the asynchronous string validation hook                        *)
(* (solution/src/hooks/useAsyncValidation.ts) as it is used by the Form    *)
(* component (solution/src/components/Form.tsx).                           *)
(*                                                                         *)
(* One state of the model is one committed render of the component         *)
(* together with what has happened since: the useState cells, the closures *)
(* created by the runs of the effect of the hook (one validation cycle per *)
(* run, each with its own isMounted variable and its own promise), the     *)
(* promises of getLocations(), the state updates that are queued and not   *)
(* rendered yet, and the life-cycle phase of the component.  A step is one *)
(* task of the single JavaScript thread: the effects of the first commit,  *)
(* an event handler, the continuation of a settled promise, the render of  *)
(* the queued updates, or the unmount.                                     *)
(*                                                                         *)
(* A state update made by an event handler (click, input) is rendered and  *)
(* committed before the handler's task ends, and the effects of that       *)
(* commit (cleanup of the previous run, validateAsync) run with it.  A     *)
(* state update made by an effect or by the continuation of a promise is   *)
(* only queued: React renders the queued updates together in a later task, *)
(* before which promises can settle and handlers can run on the state of   *)
(* the last commit.  The render of a handler's update leaves the queued    *)
(* updates queued.  A render applies the updates of one cell in the order  *)
(* they were queued, so only the last one queued for a cell reaches a      *)
(* commit; the queue of the model keeps that one.                          *)
(***************************************************************************)
EXTENDS Integers, Sequences, FiniteSets, TLC

\* Bounds of the model.
MaxCycles == 3      \* runs of the effect (invocations of validateAsync)
MaxCalls == 2       \* calls of initValue / handleChange
MaxFormCycles == 3  \* runs of the effect while the Form is used
MaxTableCycles == 5 \* runs of the effect while the table is filled
MaxOutstanding == 2 \* validations outstanding when a handler starts another
MaxRejections == 1  \* rejected validations while the table is filled
MaxItems == 2       \* rows of the table of the Form

\* Strings that can be typed into the field, and error details that a
\* rejected validation can carry.
Values == {"", "a"}
Errors == {"network error", "timeout"}

\* The locations that getLocations() resolves with, and the optionValue of a
\* selection that carries none.
LocationOptions == {"Canada", "China"}
Undefined == "<undefined>"

INITIAL_VALIDATION_RESULT == [isValid |-> TRUE, message |-> ""]

EXCEPTION_VALIDATION_RESULT ==
    [isValid |-> FALSE,
     message |-> "An error occurred while validating. Try again later."]

\* The validation function the Form passes to the hook: it wraps the boolean
\* answer of the API into a ValidationResult.
isNameValidWrapper(isValid) ==
    [isValid |-> isValid,
     message |-> IF isValid THEN "" ELSE "this name has already been taken"]

\* The ways the promise returned by validateAsync can settle.
Outstanding ==
    [kind |-> "outstanding", result |-> INITIAL_VALIDATION_RESULT, error |-> ""]

Resolved(validationResult) ==
    [kind |-> "resolved", result |-> validationResult, error |-> ""]

Rejected(error) ==
    [kind |-> "rejected", result |-> INITIAL_VALIDATION_RESULT, error |-> error]

ValidationResults == {isNameValidWrapper(b) : b \in BOOLEAN}

Settlements ==
    {Resolved(r) : r \in ValidationResults} \cup {Rejected(e) : e \in Errors}

VARIABLES
    value,      \* useState(initialValue)
    result,     \* useState(INITIAL_VALIDATION_RESULT)
    pending,    \* useState(false)
    queue,      \* per cell: the last state update queued and not yet rendered
    phase,      \* "created" (rendered, effect not yet run), "mounted", "unmounted"
    cycles,     \* one record per run of the effect, in the order they started
    lastOp,     \* the event that produced this state
    prevOp,     \* the event before the latest direct call of a mutator
    calls,      \* number of mutator calls so far
    location,   \* Form: useState<string>("")
    items,      \* Form: useState<DataItem[]>([])
    locationOptions,    \* Form: useState<string[]>([]), as a set
    locationError,      \* Form: useState<string>("")
    fetches     \* Form: one promise per call of getLocations()

vars ==
    <<value, result, pending, queue, phase, cycles, lastOp, prevOp,
      calls, location, items, locationOptions, locationError, fetches>>

formVars == <<location, items, locationOptions, locationError, fetches>>

exposed == <<value, result.isValid, result.message, pending>>

IsOutstanding(cycle) == cycle.settlement.kind = "outstanding"

IsSettled(cycle) == cycle.settlement.kind # "outstanding"

Latest == Len(cycles)

----------------------------------------------------------------------------
\* Queued state updates.

\* No update is queued for any cell.
NoUpdates ==
    [result |-> <<>>, pending |-> <<>>, locationOptions |-> <<>>,
     locationError |-> <<>>, location |-> <<>>]

\* The state a render computes for a cell: the last update queued for it,
\* or the committed state when none is queued.
Rendered(updates, state) ==
    IF updates = <<>> THEN state ELSE updates[Len(updates)]

----------------------------------------------------------------------------
\* The effect of the hook.

\* Variant: a cleanup that leaves isMounted set.
CleanupKeepsMounted(cs) == cs

\* The cleanup function of the effect: it clears the isMounted variable of
\* the run of the effect that returned it, which is the latest run.
Cleanup(cs) ==
    [i \in DOMAIN cs |->
        IF i = Len(cs) THEN [cs[i] EXCEPT !.isMounted = FALSE] ELSE cs[i]]

\* One run of the effect body up to the await: a fresh isMounted = true and
\* a call of validateAsync(value).  (setPending(true) is in the callers.)
Effect(cs, input) ==
    Append(cs, [input |-> input, isMounted |-> TRUE, settlement |-> Outstanding])

\* Variant: the try block calls setResult without looking at isMounted.
tryBlockUnguarded(c, validationResult) == <<validationResult>>

\* try block after the await: the promise of cycle c resolved;
\* setResult(validationResult) is queued when isMounted is set.
tryBlock(c, validationResult) ==
    IF cycles[c].isMounted THEN <<validationResult>> ELSE queue.result

\* Variants: a catch block that swallows the error and sets no result, and
\* one that shows the error detail to the user.
catchBlockKeepsResult(c, error) == queue.result

catchBlockShowsError(c, error) ==
    IF cycles[c].isMounted THEN <<[isValid |-> FALSE, message |-> error]>>
                           ELSE queue.result

\* catch block: the promise of cycle c rejected with error;
\* setResult(EXCEPTION_VALIDATION_RESULT) is queued when isMounted is set.
catchBlock(c, error) ==
    IF cycles[c].isMounted THEN <<EXCEPTION_VALIDATION_RESULT>>
                           ELSE queue.result

\* Variant: a finally block that never calls setPending(false).
finallyBlockKeepsPending(c) == queue.pending

\* finally block: setPending(false) is queued when isMounted is set.
finallyBlock(c) ==
    IF cycles[c].isMounted THEN <<FALSE>> ELSE queue.pending

\* The continuation of validate() of cycle c when its promise settles as s:
\* the queue it leaves.
validate(c, s) ==
    [queue EXCEPT
        !.result  = IF s.kind = "resolved" THEN tryBlock(c, s.result)
                                           ELSE catchBlock(c, s.error),
        !.pending = finallyBlock(c)]

----------------------------------------------------------------------------
\* The mutators.

\* Variants: every call renders and re-runs the effect, also with an
\* identical value; and the effect re-runs with the value of the previous
\* render still exposed.
setValueAlwaysRuns(newValue) ==
    [value |-> newValue,
     cycles |-> Effect(Cleanup(cycles), newValue),
     queue |-> [queue EXCEPT !.pending = <<TRUE>>]]

setValueLate(newValue) ==
    IF newValue = value
    THEN [value |-> value, cycles |-> cycles, queue |-> queue]
    ELSE [value |-> value,
          cycles |-> Effect(Cleanup(cycles), newValue),
          queue |-> [queue EXCEPT !.pending = <<TRUE>>]]

\* setValue of useState, called from an event handler, followed by the
\* render it causes.  React commits nothing when the new state is identical
\* to the current one; otherwise the new value is committed with the pending
\* and the result of the previous render, and since the dependency [value]
\* of the effect has changed the cleanup of the previous run is called and
\* the effect runs again, which calls validateAsync and queues
\* setPending(true).
setValue(newValue) ==
    IF newValue = value
    THEN [value |-> value, cycles |-> cycles, queue |-> queue]
    ELSE [value |-> newValue,
          cycles |-> Effect(Cleanup(cycles), newValue),
          queue |-> [queue EXCEPT !.pending = <<TRUE>>]]

\* Variant: initValue only clears the field.
initValueClears(newValue) == setValue("")

initValue(newValue) == setValue(newValue)

handleChange(e) == setValue(e.target.value)

ChangeEvent(s) == [target |-> [value |-> s]]

----------------------------------------------------------------------------
\* Actions.

Init ==
    /\ value \in Values
    /\ result = INITIAL_VALIDATION_RESULT
    /\ pending = FALSE
    /\ queue = NoUpdates
    /\ phase = "created"
    /\ cycles = <<>>
    /\ lastOp = [op |-> "create", arg |-> value, cycle |-> 0]
    /\ prevOp = [op |-> "none", arg |-> "", cycle |-> 0]
    /\ calls = 0
    /\ location = ""
    /\ items = <<>>
    /\ locationOptions = {}
    /\ locationError = ""
    /\ fetches = <<>>

\* The runs of the effect after the first commit.  Under React.StrictMode a
\* development build runs the effect, its cleanup and the effect again.
EffectAtMount(strict) ==
    IF strict
    THEN Effect(Cleanup(Effect(cycles, value)), value)
    ELSE Effect(cycles, value)

\* The effect runs after the first commit and queues setPending(true).
Mount ==
    /\ phase = "created"
    /\ \E strict \in BOOLEAN : cycles' = EffectAtMount(strict)
    /\ queue' = [queue EXCEPT !.pending = <<TRUE>>]
    /\ pending' = pending
    /\ phase' = "mounted"
    /\ lastOp' = [op |-> "mount", arg |-> value, cycle |-> 0]
    /\ UNCHANGED prevOp
    /\ UNCHANGED <<value, result, calls, formVars>>

CallInitValue ==
    /\ phase = "mounted"
    /\ calls < MaxCalls
    /\ \E newValue \in Values :
          /\ newValue # value => Len(cycles) < MaxCycles
          /\ value' = initValue(newValue).value
          /\ cycles' = initValue(newValue).cycles
          /\ queue' = initValue(newValue).queue
          /\ pending' = pending
          /\ lastOp' = [op |-> "initValue", arg |-> newValue, cycle |-> 0]
          /\ prevOp' = lastOp
    /\ calls' = calls + 1
    /\ UNCHANGED <<result, phase, formVars>>

\* Variant: a change of the value resets the result to the initial one.
CallHandleChangeResetsResult ==
    /\ phase = "mounted"
    /\ calls < MaxCalls
    /\ \E s \in Values :
          /\ s # value => Len(cycles) < MaxCycles
          /\ value' = handleChange(ChangeEvent(s)).value
          /\ cycles' = handleChange(ChangeEvent(s)).cycles
          /\ queue' = handleChange(ChangeEvent(s)).queue
          /\ pending' = pending
          /\ lastOp' = [op |-> "handleChange", arg |-> s, cycle |-> 0]
          /\ prevOp' = lastOp
    /\ calls' = calls + 1
    /\ result' = INITIAL_VALIDATION_RESULT
    /\ UNCHANGED <<phase, formVars>>

CallHandleChange ==
    /\ phase = "mounted"
    /\ calls < MaxCalls
    /\ \E s \in Values :
          /\ s # value => Len(cycles) < MaxCycles
          /\ value' = handleChange(ChangeEvent(s)).value
          /\ cycles' = handleChange(ChangeEvent(s)).cycles
          /\ queue' = handleChange(ChangeEvent(s)).queue
          /\ pending' = pending
          /\ lastOp' = [op |-> "handleChange", arg |-> s, cycle |-> 0]
          /\ prevOp' = lastOp
    /\ calls' = calls + 1
    /\ UNCHANGED <<result, phase, formVars>>

\* Variant: a rejection seen by the active run calls validateAsync again.
SettleRetries(c, s) ==
    /\ IsOutstanding(cycles[c])
    /\ cycles' = IF s.kind = "rejected" /\ cycles[c].isMounted
                  THEN Effect([cycles EXCEPT ![c].settlement = s], cycles[c].input)
                  ELSE [cycles EXCEPT ![c].settlement = s]
    /\ queue' = validate(c, s)
    /\ lastOp' = [op |-> s.kind, arg |-> cycles[c].input, cycle |-> c]
    /\ UNCHANGED prevOp
    /\ UNCHANGED <<value, result, pending, phase, calls, formVars>>

\* The promise of cycle c settles as s and validate() of that cycle resumes:
\* its state updates are queued and the committed state stays as it is.
Settle(c, s) ==
    /\ IsOutstanding(cycles[c])
    /\ cycles' = [cycles EXCEPT ![c].settlement = s]
    /\ queue' = validate(c, s)
    /\ lastOp' = [op |-> s.kind, arg |-> cycles[c].input, cycle |-> c]
    /\ UNCHANGED prevOp
    /\ UNCHANGED <<value, result, pending, phase, calls, formVars>>

Resolve ==
    \E c \in DOMAIN cycles : \E r \in ValidationResults : Settle(c, Resolved(r))

Reject ==
    \E c \in DOMAIN cycles : \E e \in Errors : Settle(c, Rejected(e))

\* React renders the queued state updates and commits the result.
Render ==
    /\ phase = "mounted"
    /\ queue # NoUpdates
    /\ result' = Rendered(queue.result, result)
    /\ pending' = Rendered(queue.pending, pending)
    /\ locationOptions' = Rendered(queue.locationOptions, locationOptions)
    /\ locationError' = Rendered(queue.locationError, locationError)
    /\ location' = Rendered(queue.location, location)
    /\ queue' = NoUpdates
    /\ lastOp' = [op |-> "render", arg |-> value, cycle |-> 0]
    /\ UNCHANGED prevOp
    /\ UNCHANGED <<value, phase, cycles, calls, items, fetches>>

\* The component is removed: the cleanup of the latest run of the effect.
\* Queued updates of a removed component are never rendered.
Unmount ==
    /\ phase = "mounted"
    /\ cycles' = Cleanup(cycles)
    /\ queue' = NoUpdates
    /\ phase' = "unmounted"
    /\ lastOp' = [op |-> "unmount", arg |-> value, cycle |-> 0]
    /\ UNCHANGED prevOp
    /\ UNCHANGED <<value, result, pending, calls, formVars>>

Next ==
    \/ Mount
    \/ CallInitValue
    \/ CallHandleChange
    \/ Render
    \/ Resolve
    \/ Reject
    \/ Unmount

Spec == Init /\ [][Next]_vars

\* The promise of the most recently started cycle eventually settles.
SettleLatest ==
    /\ Len(cycles) > 0
    /\ \E s \in Settlements : Settle(Len(cycles), s)

\* The promise of the latest cycle settles, and the render task that React
\* has scheduled for queued updates runs.
FairSpec == Spec /\ WF_vars(SettleLatest) /\ WF_vars(Render)

----------------------------------------------------------------------------
\* The Form component: the name field is the hook with initialValue "" and
\* isNameValidWrapper, next to the location dropdown and the table.

canAddIgnoresLocation == result.isValid /\ value # ""

\* useMemo canAdd; x.length > 0 of a string is x # "".
canAdd == result.isValid /\ value # "" /\ location # ""

\* data.optionValue ?? ""
handleLocationSelect(data) ==
    IF data.optionValue = Undefined THEN "" ELSE data.optionValue

\* setLocation called from an event handler is rendered at once; when a
\* queued setLocation is rendered later React applies the handler's update
\* again after it, so the queued one never reaches a commit.
setLocationInHandler(q) == [q EXCEPT !.location = <<>>]

\* Variant: Clear also empties the table.
handleClearClickClearsTable ==
    [hook |-> initValue(""), location |-> "", items |-> <<>>,
     queue |-> setLocationInHandler(initValue("").queue)]

\* The state updates of the Clear button.
handleClearClick ==
    [hook |-> initValue(""), location |-> "", items |-> items,
     queue |-> setLocationInHandler(initValue("").queue)]

\* Variant: Add puts the new row in front of the existing rows.
handleAddClickPrepends ==
    IF canAdd
    THEN [hook |-> handleClearClick.hook,
          location |-> handleClearClick.location,
          items |-> <<[name |-> value, location |-> location]>> \o items,
          queue |-> handleClearClick.queue]
    ELSE [hook |-> [value |-> value, cycles |-> cycles, queue |-> queue],
          location |-> location,
          items |-> items,
          queue |-> queue]

\* The state updates of the Add button.
handleAddClick ==
    IF canAdd
    THEN [hook |-> handleClearClick.hook,
          location |-> handleClearClick.location,
          items |-> Append(items, [name |-> value, location |-> location]),
          queue |-> handleClearClick.queue]
    ELSE [hook |-> [value |-> value, cycles |-> cycles, queue |-> queue],
          location |-> location,
          items |-> items,
          queue |-> queue]

\* The try block of fetchLocations after the await: the queue it leaves.
fetchLocationsTry ==
    [queue EXCEPT !.locationOptions = <<LocationOptions>>]

\* The catch block of fetchLocations: the queue it leaves.
fetchLocationsCatch ==
    [queue EXCEPT
        !.locationError =
            <<"An error occurred while fetching locations. Try reloading the page.">>,
        !.location = <<"">>]

FormInit == Init /\ value = ""

\* The effects run after the first commit of the Form: the effect of the
\* hook and fetchLocations(), both twice under React.StrictMode.
FormMount ==
    /\ phase = "created"
    /\ \E strict \in BOOLEAN :
          /\ cycles' = EffectAtMount(strict)
          /\ fetches' = IF strict THEN <<"outstanding", "outstanding">>
                                  ELSE <<"outstanding">>
    /\ queue' = [queue EXCEPT !.pending = <<TRUE>>]
    /\ pending' = pending
    /\ phase' = "mounted"
    /\ lastOp' = [op |-> "mount", arg |-> value, cycle |-> 0]
    /\ UNCHANGED prevOp
    /\ UNCHANGED <<value, result, calls, location, items, locationOptions,
                   locationError>>

\* A call of getLocations() resolves: setLocationOptions(locations) is
\* queued.  The state updates of a component that is no longer mounted are
\* ignored.
FetchResolve ==
    /\ \E i \in DOMAIN fetches :
          /\ fetches[i] = "outstanding"
          /\ fetches' = [fetches EXCEPT ![i] = "resolved"]
          /\ lastOp' = [op |-> "locations", arg |-> "", cycle |-> i]
    /\ queue' = IF phase = "mounted" THEN fetchLocationsTry ELSE queue
    /\ UNCHANGED prevOp
    /\ UNCHANGED <<value, result, pending, phase, cycles, calls, location,
                   items, locationOptions, locationError>>

\* A call of getLocations() rejects: setLocationError and setLocation("")
\* are queued.
FetchReject ==
    /\ \E i \in DOMAIN fetches :
          /\ fetches[i] = "outstanding"
          /\ fetches' = [fetches EXCEPT ![i] = "rejected"]
          /\ lastOp' = [op |-> "locationsFailed", arg |-> "", cycle |-> i]
    /\ queue' = IF phase = "mounted" THEN fetchLocationsCatch ELSE queue
    /\ UNCHANGED prevOp
    /\ UNCHANGED <<value, result, pending, phase, cycles, calls, location,
                   items, locationOptions, locationError>>

\* The user edits the name input.
TypeName ==
    /\ phase = "mounted"
    /\ \E s \in Values :
          /\ s # value => Len(cycles) < MaxFormCycles
          /\ value' = handleChange(ChangeEvent(s)).value
          /\ cycles' = handleChange(ChangeEvent(s)).cycles
          /\ queue' = handleChange(ChangeEvent(s)).queue
          /\ pending' = pending
          /\ lastOp' = [op |-> "handleChange", arg |-> s, cycle |-> 0]
          /\ UNCHANGED prevOp
    /\ UNCHANGED <<result, phase, calls, formVars>>

\* The user selects one of the options the dropdown shows, or clears it.
SelectLocation ==
    /\ phase = "mounted"
    /\ \E optionValue \in locationOptions \cup {Undefined} :
          /\ location' = handleLocationSelect([optionValue |-> optionValue])
          /\ lastOp' = [op |-> "select", arg |-> location', cycle |-> 0]
          /\ UNCHANGED prevOp
    /\ queue' = setLocationInHandler(queue)
    /\ UNCHANGED <<value, result, pending, phase, cycles, calls, items,
                   locationOptions, locationError, fetches>>

ClickClear ==
    /\ phase = "mounted"
    /\ value # "" => Len(cycles) < MaxFormCycles
    /\ value' = handleClearClick.hook.value
    /\ cycles' = handleClearClick.hook.cycles
    /\ queue' = handleClearClick.queue
    /\ pending' = pending
    /\ location' = handleClearClick.location
    /\ items' = handleClearClick.items
    /\ lastOp' = [op |-> "clear", arg |-> "", cycle |-> 0]
    /\ UNCHANGED prevOp
    /\ UNCHANGED <<result, phase, calls, locationOptions, locationError,
                   fetches>>

ClickAdd ==
    /\ phase = "mounted"
    /\ canAdd => (Len(cycles) < MaxFormCycles /\ Len(items) < MaxItems)
    /\ value' = handleAddClick.hook.value
    /\ cycles' = handleAddClick.hook.cycles
    /\ queue' = handleAddClick.queue
    /\ pending' = pending
    /\ location' = handleAddClick.location
    /\ items' = handleAddClick.items
    /\ lastOp' = [op |-> "add", arg |-> value, cycle |-> 0]
    /\ UNCHANGED prevOp
    /\ UNCHANGED <<result, phase, calls, locationOptions, locationError,
                   fetches>>

FormNext ==
    \/ FormMount
    \/ FetchResolve
    \/ FetchReject
    \/ TypeName
    \/ SelectLocation
    \/ ClickClear
    \/ ClickAdd
    \/ Render
    \/ Resolve
    \/ Reject
    \/ Unmount

FormSpec == FormInit /\ [][FormNext]_vars

----------------------------------------------------------------------------
\* The Form while the table is filled.  The handlers, the promises and the
\* render are those of the Form above; no control of the Form is disabled
\* while a validation is outstanding, so every handler can run at any time.
\* Filling two rows takes five runs of the effect, and the record of the
\* runs grows with each of them, so three counters are capped: the runs of
\* the effect, the validations outstanding at once when a handler starts
\* one more, and the validations that have rejected.

\* The validations whose promise has not settled, and the ones that have
\* rejected.
NumOutstanding ==
    Cardinality({c \in DOMAIN cycles : IsOutstanding(cycles[c])})

NumRejected ==
    Cardinality({c \in DOMAIN cycles : cycles[c].settlement.kind = "rejected"})

\* The user edits the name input.
TableTypeName ==
    /\ phase = "mounted"
    /\ \E s \in Values :
          /\ s # value => ( /\ Len(cycles) < MaxTableCycles
                            /\ NumOutstanding < MaxOutstanding )
          /\ value' = handleChange(ChangeEvent(s)).value
          /\ cycles' = handleChange(ChangeEvent(s)).cycles
          /\ queue' = handleChange(ChangeEvent(s)).queue
          /\ pending' = pending
          /\ lastOp' = [op |-> "handleChange", arg |-> s, cycle |-> 0]
          /\ UNCHANGED prevOp
    /\ UNCHANGED <<result, phase, calls, formVars>>

TableClickClear ==
    /\ phase = "mounted"
    /\ value # "" => ( /\ Len(cycles) < MaxTableCycles
                       /\ NumOutstanding < MaxOutstanding )
    /\ value' = handleClearClick.hook.value
    /\ cycles' = handleClearClick.hook.cycles
    /\ queue' = handleClearClick.queue
    /\ pending' = pending
    /\ location' = handleClearClick.location
    /\ items' = handleClearClick.items
    /\ lastOp' = [op |-> "clear", arg |-> "", cycle |-> 0]
    /\ UNCHANGED prevOp
    /\ UNCHANGED <<result, phase, calls, locationOptions, locationError,
                   fetches>>

TableClickAdd ==
    /\ phase = "mounted"
    /\ canAdd => ( /\ Len(cycles) < MaxTableCycles
                   /\ NumOutstanding < MaxOutstanding
                   /\ Len(items) < MaxItems )
    /\ value' = handleAddClick.hook.value
    /\ cycles' = handleAddClick.hook.cycles
    /\ queue' = handleAddClick.queue
    /\ pending' = pending
    /\ location' = handleAddClick.location
    /\ items' = handleAddClick.items
    /\ lastOp' = [op |-> "add", arg |-> value, cycle |-> 0]
    /\ UNCHANGED prevOp
    /\ UNCHANGED <<result, phase, calls, locationOptions, locationError,
                   fetches>>

\* The promise of a validation rejects: isNameValidWrapper catches nothing,
\* so the rejection reaches the catch block of the hook.
TableReject ==
    /\ NumRejected < MaxRejections
    /\ Reject

TableNext ==
    \/ FormMount
    \/ FetchResolve
    \/ FetchReject
    \/ TableTypeName
    \/ SelectLocation
    \/ TableClickClear
    \/ TableClickAdd
    \/ Render
    \/ Resolve
    \/ TableReject
    \/ Unmount

TableSpec == FormInit /\ [][TableNext]_vars

----------------------------------------------------------------------------
\* Properties.

\* Cycle c settles in the step.
SettlesInStep(c) == IsOutstanding(cycles[c]) /\ IsSettled(cycles'[c])

\* A mutator is called in the step.
MutatorCalled == calls' = calls + 1

\* React renders the queued updates in the step.
RenderStep == lastOp'.op = "render"

\* What a settled promise means for the field: the returned result, or the
\* generic failure result for a rejection.
OutcomeOf(s) ==
    IF s.kind = "resolved" THEN s.result ELSE EXCEPTION_VALIDATION_RESULT

\* C1: a cycle that settles after a later cycle has started changes none of
\* value, isValid, message, pending and queues no update; a result or a
\* pending = false is queued only by the settlement of the most recently
\* started cycle, the result being the outcome of that cycle; and the result
\* changes, or pending falls, only when React renders what was queued.
C1_LastStartedCycleWins ==
    [][ /\ \A c \in DOMAIN cycles :
              (SettlesInStep(c) /\ c < Len(cycles))
                 => (exposed' = exposed /\ queue' = queue)
        /\ (queue'.result # queue.result /\ queue'.result # <<>>)
              => /\ Len(cycles) > 0
                 /\ SettlesInStep(Len(cycles))
                 /\ queue'.result =
                       <<OutcomeOf(cycles'[Len(cycles)].settlement)>>
        /\ (queue'.pending # queue.pending /\ queue'.pending = <<FALSE>>)
              => (Len(cycles) > 0 /\ SettlesInStep(Len(cycles)))
        /\ (result' # result \/ (pending /\ ~pending'))
              => /\ RenderStep
                 /\ result' = Rendered(queue.result, result)
                 /\ pending' = Rendered(queue.pending, pending) ]_vars

\* A superseded cycle has just settled with a result that differs from the
\* committed one while the latest cycle is still outstanding; nothing is
\* queued.
C1_Witness ==
    /\ phase = "mounted"
    /\ lastOp.op = "resolved"
    /\ lastOp.cycle < Latest
    /\ cycles[lastOp.cycle].input # value
    /\ cycles[lastOp.cycle].settlement.result # result
    /\ IsOutstanding(cycles[Latest])
    /\ pending
    /\ queue = NoUpdates

\* C2 as stated: while the field is mounted, pending is true exactly when
\* the most recently started cycle has not settled.
C2_PendingIffLatestOutstanding ==
    phase = "mounted" => (pending <=> IsOutstanding(cycles[Latest]))

\* C3: every run makes finitely many value changes (MaxCalls, MaxCycles), so
\* in every run value changes stop.  From any state of a mounted field, once
\* the promise of the most recently started cycle settles, the field reaches
\* a state where that cycle is settled, pending is false and no update of
\* pending is queued, unless it is unmounted; while the latest cycle of a
\* mounted field is settled and no update of pending is queued pending is
\* false; and pending rises only while the latest cycle is outstanding, so it
\* stays false until a value change starts the next cycle.
C3_PendingEventuallyFalse ==
    /\ (phase = "mounted")
          ~> \/ phase # "mounted"
             \/ ( /\ IsSettled(cycles[Latest])
                  /\ ~pending
                  /\ queue.pending = <<>> )
    /\ []( ( /\ phase = "mounted"
             /\ Len(cycles) > 0
             /\ IsSettled(cycles[Latest])
             /\ queue.pending = <<>> )
              => ~pending )
    /\ [][(~pending /\ pending') => IsOutstanding(cycles'[Len(cycles')])]_vars

\* After a value change the latest cycle has settled and React has rendered
\* pending = false.
C3_Witness ==
    /\ phase = "mounted"
    /\ calls > 0
    /\ lastOp.op = "render"
    /\ IsSettled(cycles[Latest])
    /\ cycles[Latest].input = value
    /\ queue = NoUpdates
    /\ ~pending

\* C4: once the field is unmounted no step changes value, isValid, message
\* or pending, and no state update is queued.
C4_NoWriteAfterUnmount ==
    [][phase = "unmounted" => (exposed' = exposed /\ queue' = NoUpdates)]_vars

\* The field was unmounted with two cycles outstanding, both have settled
\* since, the last one with a result that is not the committed one.
C4_Witness ==
    /\ phase = "unmounted"
    /\ pending
    /\ lastOp.op = "resolved"
    /\ cycles[lastOp.cycle].settlement.result # result
    /\ Len(cycles) >= 2
    /\ \A c \in DOMAIN cycles : IsSettled(cycles[c])

\* C5: when the promise of the latest cycle rejects while the field is
\* mounted, the generic failure result and pending = false are queued; and
\* while that cycle is the latest one of the mounted field they are either
\* still queued or committed.
C5_RejectGivesGenericFailure ==
    /\ [][\A c \in DOMAIN cycles :
             ( /\ SettlesInStep(c)
               /\ cycles'[c].settlement.kind = "rejected"
               /\ phase = "mounted"
               /\ c = Len(cycles) )
             => ( /\ queue'.result = <<EXCEPTION_VALIDATION_RESULT>>
                  /\ queue'.pending = <<FALSE>> )]_vars
    /\ []( ( /\ phase = "mounted"
             /\ Len(cycles) > 0
             /\ cycles[Latest].settlement.kind = "rejected" )
              => \/ /\ queue.result = <<EXCEPTION_VALIDATION_RESULT>>
                    /\ queue.pending = <<FALSE>>
                 \/ /\ queue.result = <<>>
                    /\ queue.pending = <<>>
                    /\ result.isValid = FALSE
                    /\ result.message =
                          "An error occurred while validating. Try again later."
                    /\ pending = FALSE )

\* The latest cycle has rejected and React has rendered the generic failure
\* result and pending = false.
C5_Witness ==
    /\ phase = "mounted"
    /\ lastOp.op = "render"
    /\ cycles[Latest].settlement.kind = "rejected"
    /\ cycles[Latest].input = value
    /\ queue = NoUpdates
    /\ result = EXCEPTION_VALIDATION_RESULT
    /\ ~pending

\* C6 as stated: when the field is mounted, pending is false and some cycle
\* has settled, the result is the outcome of the cycle started for the
\* current value, which is the latest one; and when every settled cycle
\* resolved with {isValid: true, message: ""} the result is {isValid: true,
\* message: ""}.
C6_ResultIsOutcomeForCurrentValue ==
    /\ ( /\ phase = "mounted"
         /\ ~pending
         /\ \E c \in DOMAIN cycles : IsSettled(cycles[c]) )
       => ( /\ cycles[Latest].input = value
            /\ IsSettled(cycles[Latest])
            /\ result = OutcomeOf(cycles[Latest].settlement) )
    /\ (\A c \in DOMAIN cycles :
           IsSettled(cycles[c])
              => cycles[c].settlement = Resolved(INITIAL_VALIDATION_RESULT))
       => result = INITIAL_VALIDATION_RESULT

\* A fresh cycle for input, as the effect creates it.
FreshCycle(input) ==
    [input |-> input, isMounted |-> TRUE, settlement |-> Outstanding]

\* The step is the second of two consecutive handleChange calls with the
\* same argument.
SecondOfTwoEqualChanges ==
    /\ MutatorCalled
    /\ lastOp.op = "handleChange"
    /\ lastOp'.op = "handleChange"
    /\ lastOp'.arg = lastOp.arg

\* C7 as stated: the second of two consecutive handleChange(v) calls starts
\* a second validation cycle for v.
C7_SecondCallStartsCycle ==
    [][SecondOfTwoEqualChanges
          => ( /\ Len(cycles') = Len(cycles) + 1
               /\ cycles'[Len(cycles')].input = lastOp'.arg
               /\ cycles[Len(cycles)].input = lastOp.arg )]_vars

\* C7 (amended): a mutator call with the current value changes nothing,
\* queues nothing and starts no cycle, so the second of two consecutive
\* handleChange(v) calls invokes the validation function no further time; a
\* mutator call with a different value starts exactly one cycle for that
\* value and supersedes every earlier cycle.
C7_SameValueStartsNoCycle ==
    [][ /\ MutatorCalled =>
              IF lastOp'.arg = value
              THEN cycles' = cycles /\ exposed' = exposed /\ queue' = queue
              ELSE /\ Len(cycles') = Len(cycles) + 1
                   /\ cycles'[Len(cycles')] = FreshCycle(lastOp'.arg)
                   /\ \A c \in DOMAIN cycles :
                         /\ ~cycles'[c].isMounted
                         /\ cycles'[c].settlement = cycles[c].settlement
        /\ SecondOfTwoEqualChanges
              => (cycles' = cycles /\ exposed' = exposed /\ queue' = queue) ]_vars

\* handleChange(v) was called twice in a row; the first call changed the
\* value and started the only cycle there is for v, which is outstanding.
C7_Witness ==
    /\ phase = "mounted"
    /\ calls = 2
    /\ prevOp.op = "handleChange"
    /\ lastOp = prevOp
    /\ value = lastOp.arg
    /\ Cardinality({c \in DOMAIN cycles : cycles[c].input = value}) = 1
    /\ cycles[Latest].input = value
    /\ IsOutstanding(cycles[Latest])
    /\ Len(cycles) >= 2
    /\ pending

\* C8: after a call of initValue(s) or handleChange(s) the value is s in the
\* next state, in which no cycle has settled by the step; and neither the
\* settlement of a cycle nor a render of queued updates changes the value.
C8_ValueSetSynchronously ==
    [][ /\ MutatorCalled =>
              /\ value' = lastOp'.arg
              /\ \A c \in DOMAIN cycles :
                    cycles'[c].settlement = cycles[c].settlement
              /\ cycles'[Len(cycles')].input = lastOp'.arg
        /\ ((\E c \in DOMAIN cycles : SettlesInStep(c)) \/ RenderStep)
              => value' = value ]_vars

\* initValue(s) has just been called with a new value while the cycle of the
\* previous value is outstanding: value is s and nothing has settled.
C8_Witness ==
    /\ phase = "mounted"
    /\ lastOp.op = "initValue"
    /\ value = lastOp.arg
    /\ Len(cycles) >= 2
    /\ value # cycles[Latest - 1].input
    /\ \A c \in DOMAIN cycles : IsOutstanding(cycles[c])
    /\ result = INITIAL_VALIDATION_RESULT
    /\ pending

\* The hook state a mutator leaves behind.
HookStateAfter(m) == <<m.value, m.cycles, m.queue, pending, result>>

\* C9: a call of either mutator leaves the state that the other mutator
\* would leave when called in the same state with the same argument.
C9_MutatorsEquivalent ==
    [][ /\ (MutatorCalled /\ lastOp'.op = "initValue")
              => <<value', cycles', queue', pending', result'>>
                    = HookStateAfter(handleChange(ChangeEvent(lastOp'.arg)))
        /\ (MutatorCalled /\ lastOp'.op = "handleChange")
              => <<value', cycles', queue', pending', result'>>
                    = HookStateAfter(initValue(lastOp'.arg)) ]_vars

\* Both mutators have been used, one after the other, the second one with a
\* new value.
C9_Witness ==
    /\ phase = "mounted"
    /\ prevOp.op = "handleChange"
    /\ lastOp.op = "initValue"
    /\ prevOp.arg # lastOp.arg
    /\ value = lastOp.arg
    /\ cycles[Latest].input = value
    /\ pending

\* C10: the message, committed or queued, is "", a message returned by a
\* resolved validation, or the generic failure message, and never an error
\* detail; and in every state, for every outstanding cycle, the updates
\* that a rejection queues do not depend on the error detail the rejection
\* carries.
C10_ErrorDetailNeverExposed ==
    /\ \A r \in {result} \cup {queue.result[i] : i \in DOMAIN queue.result} :
          /\ r.message \in
                {"", EXCEPTION_VALIDATION_RESULT.message}
                   \cup {cycles[c].settlement.result.message :
                            c \in {d \in DOMAIN cycles :
                                      cycles[d].settlement.kind = "resolved"}}
          /\ r.message \notin Errors
    /\ \A c \in DOMAIN cycles :
          IsOutstanding(cycles[c]) =>
             \A e1, e2 \in Errors :
                validate(c, Rejected(e1)) = validate(c, Rejected(e2))

\* Two cycles have rejected with different error details, the latest one
\* while mounted, and the generic failure result has been rendered.
C10_Witness ==
    /\ phase = "mounted"
    /\ lastOp.op = "render"
    /\ cycles[Latest].settlement.kind = "rejected"
    /\ \E c \in DOMAIN cycles :
          /\ cycles[c].settlement.kind = "rejected"
          /\ cycles[c].settlement.error # cycles[Latest].settlement.error
    /\ queue = NoUpdates
    /\ result = EXCEPTION_VALIDATION_RESULT

\* The step is the first commit.
MountStep == phase = "created" /\ phase' = "mounted"

\* C11: the settlement of a cycle, and a render, start no cycle and leave
\* the inputs of all cycles as they are, so the validation function is
\* invoked once per cycle; a cycle starts only at the first commit or in a
\* mutator call with a new value; such a call made while the generic failure
\* result is shown starts a fresh cycle, and when that cycle resolves as the
\* latest one on a mounted field its result is queued and the render that
\* follows replaces the generic failure result by it.
C11_NoRetryUntilValueChange ==
    [][ /\ ((\E c \in DOMAIN cycles : SettlesInStep(c)) \/ RenderStep)
              => /\ Len(cycles') = Len(cycles)
                 /\ \A d \in DOMAIN cycles : cycles'[d].input = cycles[d].input
        /\ Len(cycles') # Len(cycles)
              => (MountStep \/ (MutatorCalled /\ lastOp'.arg # value))
        /\ (MutatorCalled /\ lastOp'.arg # value
                /\ result = EXCEPTION_VALIDATION_RESULT)
              => /\ Len(cycles') = Len(cycles) + 1
                 /\ cycles'[Len(cycles')] = FreshCycle(lastOp'.arg)
        /\ ( /\ phase = "mounted"
             /\ Len(cycles) > 0
             /\ SettlesInStep(Len(cycles))
             /\ cycles'[Len(cycles)].settlement.kind = "resolved" )
              => queue'.result = <<cycles'[Len(cycles)].settlement.result>>
        /\ (RenderStep /\ queue.result # <<>>)
              => result' = queue.result[1] ]_vars

\* The cycle of the first commit rejected, one value change started a
\* second cycle, that cycle has resolved and its result has been rendered.
C11_Witness ==
    /\ phase = "mounted"
    /\ calls = 1
    /\ Len(cycles) = 2
    /\ cycles[1].settlement.kind = "rejected"
    /\ cycles[1].input # cycles[2].input
    /\ cycles[2].settlement.kind = "resolved"
    /\ lastOp.op = "render"
    /\ queue = NoUpdates
    /\ result = cycles[2].settlement.result
    /\ result # EXCEPTION_VALIDATION_RESULT
    /\ ~pending

\* The state the hook is created with.
CreatedState ==
    /\ value = lastOp.arg
    /\ result = INITIAL_VALIDATION_RESULT
    /\ result.isValid = TRUE
    /\ result.message = ""
    /\ pending = FALSE
    /\ queue = NoUpdates
    /\ cycles = <<>>

\* The latest cycle settles in the step, before any mutator was called, on a
\* mounted field.
FirstCycleSettles ==
    /\ phase = "mounted"
    /\ calls = 0
    /\ Len(cycles) > 0
    /\ SettlesInStep(Len(cycles))

\* C12 as stated: the field is created with (initialValue, true, "",
\* false); the first run of the effect starts exactly one cycle, for
\* initialValue, and leaves value and result as they are; pending has become
\* true by the time that cycle settles; and its settlement on the mounted
\* field, before any mutator call, queues the outcome as the result, which
\* the render that follows shows in place of the initial one.
C12_MountStartsOneCycle ==
    /\ [](phase = "created" => CreatedState)
    /\ [][ /\ MountStep
              => /\ cycles' = <<FreshCycle(value)>>
                 /\ value' = value
                 /\ result' = result
           /\ FirstCycleSettles
              => /\ pending
                 /\ queue'.result =
                       <<OutcomeOf(cycles'[Len(cycles)].settlement)>>
           /\ (RenderStep /\ calls = 0 /\ IsSettled(cycles[Len(cycles)]))
              => result' = OutcomeOf(cycles[Len(cycles)].settlement) ]_vars

\* C13: the first commit and every mutator call leave isValid and message
\* unchanged; and while a mounted field is pending the result is the
\* initial one or the outcome of a settled cycle that started before the
\* latest one.
C13_StartKeepsResult ==
    /\ [][(MountStep \/ MutatorCalled) => result' = result]_vars
    /\ []( (phase = "mounted" /\ pending)
              => \/ result = INITIAL_VALIDATION_RESULT
                 \/ \E c \in 1..(Len(cycles) - 1) :
                       /\ IsSettled(cycles[c])
                       /\ result = OutcomeOf(cycles[c].settlement) )

\* handleChange has just started a cycle for a new value while the result
\* committed for the previous value, which is not the initial one, is shown.
C13_Witness ==
    /\ phase = "mounted"
    /\ lastOp.op = "handleChange"
    /\ value = lastOp.arg
    /\ Len(cycles) >= 2
    /\ cycles[Latest - 1].input # value
    /\ IsSettled(cycles[Latest - 1])
    /\ result = OutcomeOf(cycles[Latest - 1].settlement)
    /\ result # INITIAL_VALIDATION_RESULT
    /\ IsOutstanding(cycles[Latest])
    /\ pending

\* C14: a click on Add with isValid true, a non-empty name and a non-empty
\* location appends the row {name, location} after the existing rows, which
\* stay as they are and in their order, and sets name and location to "";
\* any other click on Add leaves items, name and location unchanged; no
\* other step changes the table; every row has a non-empty name and a
\* non-empty location.
C14_AddAppendsOneRowIfCanAdd ==
    /\ [][ /\ lastOp'.op = "add" =>
                 IF result.isValid /\ value # "" /\ location # ""
                 THEN /\ items' = items \o <<[name |-> value,
                                              location |-> location]>>
                      /\ value' = ""
                      /\ location' = ""
                 ELSE /\ items' = items
                      /\ value' = value
                      /\ location' = location
           /\ items' # items =>
                 /\ lastOp'.op = "add"
                 /\ result.isValid /\ value # "" /\ location # "" ]_vars
    /\ [](\A i \in DOMAIN items :
             items[i].name # "" /\ items[i].location # "")

\* Add has just appended a second row, with another location than the first
\* one, behind the first row, emptied both inputs and started the cycle for
\* the name "".  The rows were added while the validation started at the
\* first commit was still outstanding, and a validation has rejected in
\* between.
C14_Witness ==
    /\ phase = "mounted"
    /\ lastOp.op = "add"
    /\ Len(items) = 2
    /\ items[1].location # items[2].location
    /\ items[2].name = lastOp.arg
    /\ items[2].location \in locationOptions
    /\ value = ""
    /\ location = ""
    /\ cycles[Latest].input = ""
    /\ IsOutstanding(cycles[Latest])
    /\ IsOutstanding(cycles[1])
    /\ \E c \in DOMAIN cycles : cycles[c].settlement.kind = "rejected"

\* C15: a row is appended only when no validation is outstanding and the
\* latest cycle was run for the name that is added and resolved with
\* isValid = true.
C15_AddOnlyValidatedName ==
    [][Len(items') > Len(items)
          => /\ ~pending
             /\ cycles[Len(cycles)].input = value
             /\ cycles[Len(cycles)].settlement.kind = "resolved"
             /\ cycles[Len(cycles)].settlement.result.isValid ]_vars

\* C16: a click on Clear sets name and location to "" and leaves the rows
\* and the result unchanged; afterwards the latest cycle is one for "" and,
\* if the name was not "", every earlier cycle is superseded; a superseded
\* cycle that settles changes neither the field nor the Form and queues
\* nothing; and when the field with name "" is mounted, its latest cycle
\* has settled and no update of the field is queued, that cycle was run for
\* "", its outcome is the result and pending is false.
C16_ClearResetsInputs ==
    /\ [][ /\ lastOp'.op = "clear" =>
                 /\ value' = ""
                 /\ location' = ""
                 /\ items' = items
                 /\ result' = result
                 /\ cycles'[Len(cycles')].input = ""
                 /\ \A c \in DOMAIN cycles :
                       /\ cycles'[c].settlement = cycles[c].settlement
                       /\ value # "" => ~cycles'[c].isMounted
           /\ \A c \in DOMAIN cycles :
                 (SettlesInStep(c) /\ c < Len(cycles))
                    => /\ exposed' = exposed
                       /\ formVars' = formVars
                       /\ queue' = queue ]_vars
    /\ []( ( /\ phase = "mounted"
             /\ value = ""
             /\ IsSettled(cycles[Latest])
             /\ queue.result = <<>>
             /\ queue.pending = <<>> )
              => /\ cycles[Latest].input = ""
                 /\ result = OutcomeOf(cycles[Latest].settlement)
                 /\ ~pending )

\* Clear has just been clicked while the cycle of the name "a" was
\* outstanding: that cycle is superseded and still outstanding, the cycle
\* for "" has started, and name and location are "".
C16_Witness ==
    /\ phase = "mounted"
    /\ lastOp.op = "clear"
    /\ Len(cycles) >= 2
    /\ cycles[Latest - 1].input # ""
    /\ IsOutstanding(cycles[Latest - 1])
    /\ ~cycles[Latest - 1].isMounted
    /\ cycles[Latest].input = ""
    /\ IsOutstanding(cycles[Latest])
    /\ value = ""
    /\ location = ""
    /\ locationOptions # {}
    /\ pending

====
